---- MODULE Spec2Model ----
(***************************************************************************)
(* Model of the agentscore crawl-and-score engine (scorer.ts) and of the   *)
(* cache-key normalisation of its serving shell (server.ts).               *)
(*                                                                         *)
(* Strings are sequences of atoms.  An atom stands for a run of characters *)
(* that no operation of the program splits ("www", ".", "/", "docs") .     *)
(* startsWith / endsWith / includes / replace are computed on these        *)
(* sequences exactly as the JavaScript methods compute them on characters. *)
(***************************************************************************)
EXTENDS Integers, Sequences, FiniteSets, TLC

\* ------------------------------------------------------------------------
\* String primitives (String.prototype.* as the source uses them)
\* ------------------------------------------------------------------------

SubStr(s, i, j) == IF j < i THEN <<>> ELSE SubSeq(s, i, j)

\* s.startsWith(p)
StartsWith(s, p) == Len(p) <= Len(s) /\ SubStr(s, 1, Len(p)) = p

\* s.endsWith(p)
EndsWith(s, p) == Len(p) <= Len(s) /\ SubStr(s, Len(s) - Len(p) + 1, Len(s)) = p

\* s.indexOf(p), 1-based; 0 when p does not occur
IndexOf(s, p) ==
    LET hits == {i \in 1..(Len(s) - Len(p) + 1) : SubStr(s, i, i + Len(p) - 1) = p}
    IN IF hits = {} THEN 0 ELSE CHOOSE i \in hits : \A j \in hits : i <= j

\* s.includes(p)
Includes(s, p) == p = <<>> \/ IndexOf(s, p) > 0

\* s.replace(pat, rep) with a string pattern: the first occurrence only
ReplaceFirst(s, pat, rep) ==
    LET i == IndexOf(s, pat)
    IN IF i = 0 THEN s
       ELSE SubStr(s, 1, i - 1) \o rep \o SubStr(s, i + Len(pat), Len(s))

RECURSIVE Concat(_)
\* the concatenation of a sequence of strings
Concat(ss) == IF ss = <<>> THEN <<>> ELSE Head(ss) \o Concat(Tail(ss))

RECURSIVE JoinWith(_, _)
\* ss.join(sep)
JoinWith(ss, sep) ==
    IF ss = <<>> THEN <<>>
    ELSE IF Len(ss) = 1 THEN Head(ss)
    ELSE Head(ss) \o sep \o JoinWith(Tail(ss), sep)

\* ------------------------------------------------------------------------
\* new URL(...) : the WHATWG parser on the inputs the model draws
\* ------------------------------------------------------------------------

SCHEMESEP == <<":", "/", "/">>
HTTPS == <<"http", "s">> \o SCHEMESEP
HTTP  == <<"http">> \o SCHEMESEP
WWWDOT == <<"www", ".">>

NoUrl == [ok |-> FALSE, scheme |-> <<>>, hostname |-> <<>>, pathname |-> <<>>]

RECURSIVE SkipSlashes(_)
\* a special scheme's authority starts after any number of slashes
SkipSlashes(s) == IF s # <<>> /\ Head(s) = "/" THEN SkipSlashes(Tail(s)) ELSE s

\* new URL(s) for an absolute http(s) URL string; ok = FALSE is the TypeError
ParseUrl(s) ==
    LET scheme == IF StartsWith(s, HTTPS) THEN HTTPS
                  ELSE IF StartsWith(s, HTTP) THEN HTTP
                  ELSE <<>>
        split(rest, cut) ==
            [host |-> IF cut = 0 THEN rest ELSE SubStr(rest, 1, cut - 1),
             path |-> IF cut = 0 THEN <<"/">> ELSE SubStr(rest, cut, Len(rest))]
    IN CHOOSE u \in
          {IF scheme = <<>> \/ hp.host = <<>> \/ Includes(hp.host, <<" ">>)
           THEN NoUrl
           ELSE [ok |-> TRUE, scheme |-> scheme, hostname |-> hp.host, pathname |-> hp.path] :
             hp \in {split(rest, IndexOf(rest, <<"/">>)) :
                        rest \in {SkipSlashes(SubStr(s, Len(scheme) + 1, Len(s)))}}} : TRUE

\* URL.origin
UrlOrigin(u) == u.scheme \o u.hostname

\* URL.href
UrlHref(u) == u.scheme \o u.hostname \o u.pathname

\* ------------------------------------------------------------------------
\* scoreUrl: input validation and normalisation
\* ------------------------------------------------------------------------

\* inputUrl.startsWith("http") ? inputUrl : `https://${inputUrl}`
WithSchemeSkipsCheck(inputUrl) == HTTPS \o inputUrl

WithScheme(inputUrl) ==
    IF StartsWith(inputUrl, <<"http">>) THEN inputUrl ELSE HTTPS \o inputUrl

\* the www. strip of scoreUrl, mutated to leave the URL as parsed
StripWwwKeeps(u) == u

\* if (hostname.startsWith("www.")) baseUrl = new URL(href.replace("://www.", "://"))
StripWww(u) ==
    IF StartsWith(u.hostname, WWWDOT)
    THEN ParseUrl(ReplaceFirst(UrlHref(u), SCHEMESEP \o WWWDOT, SCHEMESEP))
    ELSE u

\* the hostname check of scoreUrl, mutated to accept every host
HasDotAlways(host) == TRUE

\* baseUrl.hostname.includes(".")
HasDot(host) == Includes(host, <<".">>)

\* The validation prefix of scoreUrl: the error it throws, or the base URL.
\*   "InvalidUrl"  : new URL threw inside the try (line 387)
\*   "NotAFullUrl" : the hostname has no dot (line 392)
\*   "TypeError"   : the re-parse after the www. strip threw (line 397)
ValidateInput(inputUrl) ==
    LET u == ParseUrl(WithScheme(inputUrl))
    IN IF ~u.ok THEN [err |-> "InvalidUrl", url |-> NoUrl]
       ELSE IF ~HasDot(u.hostname) THEN [err |-> "NotAFullUrl", url |-> NoUrl]
       ELSE LET b == StripWww(u)
            IN IF ~b.ok THEN [err |-> "TypeError", url |-> NoUrl]
               ELSE [err |-> "none", url |-> b]

\* baseUrl.hostname.replace(/^www\./, "")
BaseDomainOf(host) ==
    IF StartsWith(host, WWWDOT) THEN SubStr(host, 3, Len(host)) ELSE host

\* ------------------------------------------------------------------------
\* server.ts: the cache key of POST /api/score
\* ------------------------------------------------------------------------

\* try { u = new URL(...); key = u.origin.replace("://www.", "://") } catch { key = body.url }
ServerKeyOf(url) ==
    LET u == ParseUrl(WithScheme(url))
    IN IF u.ok THEN ReplaceFirst(UrlOrigin(u), SCHEMESEP \o WWWDOT, SCHEMESEP)
       ELSE url

\* ------------------------------------------------------------------------
\* The rubric's keyword lists, lower-cased as textContains compares them.
\* Words are cut where another keyword of the rubric (or a URL of the crawl)
\* begins or ends inside them, so that one keyword occurs in another here
\* exactly when it does character by character ("aml" in "openapi.yaml").
\* ------------------------------------------------------------------------

\* line 493: hasAny([...]) of apiIndicators
apiIndicatorsKw ==
    << <<"api", " ", "documentation">>,
       <<"api", " ", "reference">>,
       <<"api", " ", "docs">>,
       <<"developer", " ", "docs">>,
       <<"rest", " ", "api">>,
       <<"graphql", " ", "api">> >>

\* line 494: linkHasAny([...]) of apiLinks
apiLinksKw ==
    << <<"/", "api">>,
       <<"/", "docs">>,
       <<"/", "developer">>,
       <<"/", "reference">>,
       <<"/", "api", "-", "docs">> >>

\* line 513: hasAny([...]) of pricingKeywords
pricingKeywordsKw ==
    << <<"pricing">>,
       <<"price">>,
       <<"per", " ", "month">>,
       <<"/", "mo">>,
       <<"free", " ", "tier">>,
       <<"free", " ", "plan">>,
       <<"pay", " ", "as", " ", "you", " ", "go">>,
       <<"usage", "-", "based">> >>

\* line 514: hasAny([...]) of structuredPricing
structuredPricingKw ==
    << <<"application", "/", "ld", "+", "json">>,
       <<"schema", ".", "org", "/", "offer">>,
       <<"schema", ".", "org", "/", "product">>,
       <<"itemtype", "=", "\"", "http">> >>

\* line 532: hasAny([...]) of dirKeywords
dirKeywordsKw ==
    << <<"rapidapi">>,
       <<"programmableweb">>,
       <<"api", " ", "marketplace">>,
       <<"api", " ", "directory">>,
       <<"agent", " ", "directory">>,
       <<"mcp", " ", "server">>,
       <<"agent", " ", "protocol">> >>

\* line 543: hasAny([...]) of openapiIndicators
openapiIndicatorsKw ==
    << <<"openapi">>,
       <<"swagger">>,
       <<"api", "-", "spec">>,
       <<"openapi", ".", "json">>,
       <<"openapi", ".", "y", "aml">>,
       <<"swagger", ".", "json">>,
       <<"swagger", ".", "y", "aml">>,
       <<"redoc">> >>

\* line 563: hasAny([...]) of signupIndicators
signupIndicatorsKw ==
    << <<"api", " ", "key">>,
       <<"get", " ", "started">>,
       <<"sign", " ", "up">>,
       <<"create", " ", "account">>,
       <<"register">>,
       <<"get", " ", "api", " ", "key">>,
       <<"instant", " ", "access">> >>

\* line 564: hasAny([...]) of noHumanSteps
noHumanStepsKw ==
    << <<"no", " ", "credit", " ", "card">>,
       <<"instant">>,
       <<"self", "-", "serve">>,
       <<"self", "-", "service">>,
       <<"automatic">> >>

\* line 565: hasAny([...]) of kycIndicators
kycIndicatorsKw ==
    << <<"kyc">>,
       <<"know", " ", "your", " ", "customer">>,
       <<"identity", " ", "verification">>,
       <<"id", " ", "verification">>,
       <<"aml">>,
       <<"anti", "-", "money", " ", "laundering">>,
       <<"verify", " ", "your", " ", "identity">>,
       <<"government", " ", "id">>,
       <<"ssn">>,
       <<"passport">>,
       <<"drivers", " ", "license">>,
       <<"proof", " ", "of", " ", "address">>,
       <<"accredited", " ", "investor">> >>

\* line 566: hasAny([...]) of contactSalesSignup
contactSalesSignupKw ==
    << <<"contact", " ", "sales">>,
       <<"request", " ", "demo">>,
       <<"book", " ", "a", " ", "demo">>,
       <<"talk", " ", "to", " ", "sales">>,
       <<"schedule", " ", "a", " ", "call">>,
       <<"request", " ", "access">> >>

\* line 593: hasAny([...]) of captchaIndicators
captchaIndicatorsKw ==
    << <<"re", "captcha">>,
       <<"h", "captcha">>,
       <<"captcha">>,
       <<"g", "-", "re", "captcha">>,
       <<"cf", "-", "turnstile">>,
       <<"turnstile">> >>

\* line 606: hasAny([...]) of billingIndicators
billingIndicatorsKw ==
    << <<"usage", "-", "based">>,
       <<"pay", " ", "per", " ", "use">>,
       <<"pay", " ", "as", " ", "you", " ", "go">>,
       <<"per", " ", "request">>,
       <<"per", " ", "call">>,
       <<"metered">>,
       <<"per", " ", "api", " ", "call">>,
       <<"per", " ", "token">> >>

\* line 611: hasAny([...]) of subIndicators
subIndicatorsKw ==
    << <<"subscription">>,
       <<"monthly">>,
       <<"annual">>,
       <<"enterprise">> >>

\* line 623: hasAny([...]) of cryptoIndicators
cryptoIndicatorsKw ==
    << <<"crypto">>,
       <<"crypto", "currency">>,
       <<"bitcoin">>,
       <<"ethereum">>,
       <<"usdc">>,
       <<"usdt">>,
       <<"stablecoin">>,
       <<"web3">>,
       <<"wallet">> >>

\* line 634: hasAny([...]) of protocolIndicators
protocolIndicatorsKw ==
    << <<"x402">>,
       <<"ucp">>,
       <<"agent", " ", "protocol">>,
       <<"ap2">>,
       <<"402", " ", "payment">>,
       <<"http", " ", "402">>,
       <<"machine", "-", "payable">> >>

\* line 646: hasAny([...]) of mcpIndicators
mcpIndicatorsKw ==
    << <<"model", " ", "context", " ", "protocol">>,
       <<"mcp">>,
       <<"agent", "-", "to", "-", "agent">>,
       <<"a2a">>,
       <<"mcp", " ", "server">>,
       <<"mcp", " ", "tool">>,
       <<"function", " ", "calling">> >>

\* line 657: hasAny([...]) of jsonIndicators
jsonIndicatorsKw ==
    << <<"json", " ", "response">>,
       <<"json", " ", "api">>,
       <<"application", "/", "json">>,
       <<"rest", " ", "api">>,
       <<"graphql">>,
       <<"json", " ", "output">>,
       <<"json", " ", "format">>,
       <<"returns", " ", "json">> >>

\* line 658: hasAny([...]) of sdkIndicators
sdkIndicatorsKw ==
    << <<"sdk">>,
       <<"client", " ", "library">>,
       <<"npm", " ", "install">>,
       <<"pip", " ", "install">>,
       <<"gem", " ", "install">>,
       <<"nuget">> >>

\* line 672: hasAny([...]) of sandboxIndicators
sandboxIndicatorsKw ==
    << <<"sandbox">>,
       <<"test", " ", "mode">>,
       <<"test", " ", "environment">>,
       <<"playground">>,
       <<"try", " ", "it">>,
       <<"interactive">>,
       <<"api", " ", "console">>,
       <<"api", " ", "explorer">> >>

\* line 683: hasAny([...]) of rlIndicators
rlIndicatorsKw ==
    << <<"rate", " ", "limit">>,
       <<"rate", "-", "limit">>,
       <<"throttl">>,
       <<"429">>,
       <<"quota">>,
       <<"requests", " ", "per">>,
       <<"rpm">>,
       <<"rps">>,
       <<"error", " ", "code">>,
       <<"error", " ", "handling">>,
       <<"status", " ", "code">> >>

\* line 695: hasAny([...]) of contactSales
contactSalesKw ==
    << <<"contact", " ", "sales">>,
       <<"contact", " ", "us", " ", "for", " ", "pricing">>,
       <<"request", " ", "a", " ", "quote">>,
       <<"custom", " ", "pricing">>,
       <<"talk", " ", "to", " ", "sales">> >>

\* line 696: hasAny([...]) of transparentPricing
transparentPricingKw ==
    << <<"$">>,
       <<"(euro sign)">>,
       <<"(pound sign)">>,
       <<"free">>,
       <<"per", " ", "month">>,
       <<"/", "mo">>,
       <<"/", "year">>,
       <<"starting", " ", "at">> >>

\* line 711: hasAny([...]) of spendIndicators
spendIndicatorsKw ==
    << <<"spend", " ", "limit">>,
       <<"usage", " ", "cap">>,
       <<"budget">>,
       <<"spending", " ", "limit">>,
       <<"cost", " ", "control">>,
       <<"billing", " ", "alert">>,
       <<"usage", " ", "alert">>,
       <<"hard", " ", "limit">>,
       <<"soft", " ", "limit">> >>

\* line 722: hasAny([...]) of slaIndicators
slaIndicatorsKw ==
    << <<"sla">>,
       <<"uptime">>,
       <<"9", "9", ".", "9">>,
       <<"9", "9", ".", "9", "9">>,
       <<"availability">>,
       <<"service", " ", "level">>,
       <<"status", " ", "page">> >>

\* line 736: hasAny([...]) of automatedUse
automatedUseKw ==
    << <<"automated">>,
       <<"programmatic", " ", "access">>,
       <<"bot">>,
       <<"machine">>,
       <<"agent">>,
       <<"non", "-", "human">> >>

\* line 737: hasAny([...]) of antiBot
antiBotKw ==
    << <<"no", " ", "automated">>,
       <<"prohibit", " ", "automated">>,
       <<"no", " ", "bot", "s">>,
       <<"no", " ", "scraping">>,
       <<"human", " ", "only">> >>

\* ------------------------------------------------------------------------
\* The corpus and the rubric (scoreUrl, lines 482-750)
\* A corpus is [text, links, keys, probe]: allText, allLinksText, the keys
\* of the Page map, and whether a direct OpenAPI probe found a spec.
\* ------------------------------------------------------------------------

\* lower.includes(k) of textContains, deciding on the first atom before comparing
TextHas(text, k) ==
    \E i \in 1..(Len(text) - Len(k) + 1) :
        text[i] = k[1] /\ SubStr(text, i, i + Len(k) - 1) = k

\* textContains(text, keywords): the keywords found, in list order
textContains(text, keywords) == SelectSeq(keywords, LAMBDA k : TextHas(text, k))

hasAny(c, keywords) == textContains(c.text, keywords)

linkHasAny(c, keywords) == textContains(c.links, keywords)

\* pages.has(key)
PagesHas(c, key) == key \in c.keys

Min(a, b) == IF a < b THEN a ELSE b

Sub(name, maxPoints, score, frictionType) ==
    [name |-> name, maxPoints |-> maxPoints, score |-> score, frictionType |-> frictionType]

disc_api(c) ==
    LET apiIndicators == hasAny(c, apiIndicatorsKw)
        apiLinks == linkHasAny(c, apiLinksKw)
        s0 == 0
        s1 == IF Len(apiIndicators) > 0 THEN s0 + 2 ELSE s0
        s2 == IF Len(apiLinks) > 0 THEN Min(3, s1 + 1) ELSE s1
        s3 == IF \/ PagesHas(c, <<"/", "docs">>)
                 \/ PagesHas(c, <<"/", "api">>)
                 \/ PagesHas(c, <<"/", "api", "-", "docs">>)
                 \/ PagesHas(c, <<"/", "documentation">>)
              THEN Min(3, s2 + 1) ELSE s2
    IN Sub("Public API with docs", 3, s3, "unset")

disc_pricing(c) ==
    LET pricingPage == PagesHas(c, <<"/", "pricing">>)
        pricingKeywords == hasAny(c, pricingKeywordsKw)
        structuredPricing == hasAny(c, structuredPricingKw)
        s1 == IF pricingPage THEN 1 ELSE 0
        s2 == IF Len(pricingKeywords) > 0 THEN Min(2, s1 + 1) ELSE s1
        s3 == IF Len(structuredPricing) > 0 THEN 3 ELSE s2
    IN Sub("Machine-readable pricing", 3, s3, "unset")

disc_directories(c) ==
    LET dirKeywords == hasAny(c, dirKeywordsKw)
    IN Sub("Listed in agent directories", 2,
           IF Len(dirKeywords) > 0 THEN Min(2, Len(dirKeywords)) ELSE 0, "unset")

disc_metadata(c) ==
    LET openapiIndicators == hasAny(c, openapiIndicatorsKw)
        s1 == IF Len(openapiIndicators) > 0 THEN 2 ELSE 0
        s2 == IF c.probe THEN 2 ELSE s1
    IN Sub("Structured metadata / OpenAPI spec", 2, s2, "unset")

\* the signup evaluator, mutated to test contact-sales language before KYC
purch_signupContactFirst(c) ==
    LET signupIndicators == hasAny(c, signupIndicatorsKw)
        noHumanSteps == hasAny(c, noHumanStepsKw)
        kycIndicators == hasAny(c, kycIndicatorsKw)
        contactSalesSignup == hasAny(c, contactSalesSignupKw)
    IN IF Len(contactSalesSignup) > 0 /\ Len(noHumanSteps) = 0
         THEN Sub("Programmatic signup", 2, 0, "voluntary")
       ELSE IF Len(kycIndicators) > 0
         THEN Sub("Programmatic signup", 2, 1, "regulatory")
       ELSE IF Len(noHumanSteps) > 0
         THEN Sub("Programmatic signup", 2, 2, "none")
       ELSE IF Len(signupIndicators) > 0
         THEN Sub("Programmatic signup", 2, 1, "none")
       ELSE Sub("Programmatic signup", 2, 0, "none")

purch_signup(c) ==
    LET signupIndicators == hasAny(c, signupIndicatorsKw)
        noHumanSteps == hasAny(c, noHumanStepsKw)
        kycIndicators == hasAny(c, kycIndicatorsKw)
        contactSalesSignup == hasAny(c, contactSalesSignupKw)
    IN IF Len(kycIndicators) > 0
         THEN Sub("Programmatic signup", 2, 1, "regulatory")
       ELSE IF Len(contactSalesSignup) > 0 /\ Len(signupIndicators) = 0
         THEN Sub("Programmatic signup", 2, 0, "voluntary")
       ELSE IF Len(noHumanSteps) > 0
         THEN Sub("Programmatic signup", 2, 2, "none")
       ELSE IF Len(signupIndicators) > 0
         THEN Sub("Programmatic signup", 2, 1, "none")
       ELSE Sub("Programmatic signup", 2, 0, "none")

\* the CAPTCHA evaluator, mutated to start at 0 instead of 2
purch_captchaStartsAtZero(c) ==
    LET captchaIndicators == hasAny(c, captchaIndicatorsKw)
    IN Sub("No CAPTCHA", 2, 0, IF Len(captchaIndicators) > 0 THEN "voluntary" ELSE "none")

purch_captcha(c) ==
    LET captchaIndicators == hasAny(c, captchaIndicatorsKw)
    IN IF Len(captchaIndicators) > 0
         THEN Sub("No CAPTCHA", 2, 0, "voluntary")
       ELSE Sub("No CAPTCHA", 2, 2, "none")

purch_billing(c) ==
    LET billingIndicators == hasAny(c, billingIndicatorsKw)
        subIndicators == hasAny(c, subIndicatorsKw)
    IN Sub("API-based / usage-based billing", 2,
           IF Len(billingIndicators) > 0 THEN 2
           ELSE IF Len(subIndicators) > 0 THEN 1 ELSE 0, "unset")

purch_crypto(c) ==
    LET cryptoIndicators == hasAny(c, cryptoIndicatorsKw)
    IN Sub("Accepts crypto/stablecoin", 2,
           IF Len(cryptoIndicators) > 0 THEN 2 ELSE 0, "unset")

purch_protocols(c) ==
    LET protocolIndicators == hasAny(c, protocolIndicatorsKw)
    IN Sub("Supports x402, UCP, or AP2", 2,
           IF Len(protocolIndicators) > 0 THEN 2 ELSE 0, "unset")

int_mcp(c) ==
    LET mcpIndicators == hasAny(c, mcpIndicatorsKw)
    IN Sub("MCP or A2A support", 3, IF Len(mcpIndicators) > 0 THEN 3 ELSE 0, "unset")

int_structured(c) ==
    LET jsonIndicators == hasAny(c, jsonIndicatorsKw)
        sdkIndicators == hasAny(c, sdkIndicatorsKw)
        s1 == IF Len(jsonIndicators) > 0 THEN 2 ELSE 0
        s2 == IF Len(sdkIndicators) > 0 THEN Min(3, s1 + 1) ELSE s1
    IN Sub("Structured output (JSON)", 3, s2, "unset")

int_sandbox(c) ==
    LET sandboxIndicators == hasAny(c, sandboxIndicatorsKw)
    IN Sub("Sandbox/test environment", 2,
           IF Len(sandboxIndicators) > 0 THEN 2 ELSE 0, "unset")

int_ratelimits(c) ==
    LET rlIndicators == hasAny(c, rlIndicatorsKw)
    IN Sub("Clear rate limits & error handling", 2,
           IF Len(rlIndicators) > 0 THEN 2 ELSE 0, "unset")

trust_pricing(c) ==
    LET contactSales == hasAny(c, contactSalesKw)
        transparentPricing == hasAny(c, transparentPricingKw)
    IN Sub("Transparent pricing", 3,
           IF Len(contactSales) > 0 /\ Len(transparentPricing) = 0 THEN 0
           ELSE IF Len(transparentPricing) > 0
                THEN (IF Len(contactSales) > 0 THEN 2 ELSE 3)
           ELSE 0, "unset")

trust_spend(c) ==
    LET spendIndicators == hasAny(c, spendIndicatorsKw)
    IN Sub("Spend controls and usage caps", 3,
           IF Len(spendIndicators) > 0 THEN 3 ELSE 0, "unset")

trust_sla(c) ==
    LET slaIndicators == hasAny(c, slaIndicatorsKw)
        statusPage == PagesHas(c, <<"/", "status">>) \/ PagesHas(c, <<"/", "sla">>)
    IN Sub("SLA / uptime guarantees", 2,
           IF Len(slaIndicators) > 0 \/ statusPage THEN 2 ELSE 0, "unset")

trust_tos(c) ==
    LET tosPage == \/ PagesHas(c, <<"/", "terms">>)
                   \/ PagesHas(c, <<"/", "tos">>)
                   \/ PagesHas(c, <<"/", "terms", "-", "of", "-", "service">>)
                   \/ PagesHas(c, <<"/", "legal">>)
        automatedUse == hasAny(c, automatedUseKw)
        antiBot == hasAny(c, antiBotKw)
        s1 == IF tosPage THEN 1 ELSE 0
        s2 == IF Len(automatedUse) > 0 /\ Len(antiBot) = 0 THEN 2
              ELSE IF Len(antiBot) > 0 THEN 0
              ELSE s1
    IN Sub("ToS allows automated/agent usage", 2, s2, "unset")

\* ------------------------------------------------------------------------
\* Aggregation (scoreUrl, lines 752-806)
\* ------------------------------------------------------------------------

RECURSIVE SumScores(_)
\* subScores.reduce((sum, s) => sum + s.score, 0)
SumScores(subs) == IF subs = <<>> THEN 0 ELSE Head(subs).score + SumScores(Tail(subs))

\* the category sum, mutated to start the reduce at the second sub-score
CategoryDropsFirst(name, subs) ==
    [name |-> name, maxPoints |-> 10,
     score |-> Min(10, SumScores(Tail(subs))), subScores |-> subs]

\* cat.score = Math.min(cat.maxPoints, sum of the sub-scores)
Category(name, subs) ==
    [name |-> name, maxPoints |-> 10,
     score |-> Min(10, SumScores(subs)), subScores |-> subs]

Categories(c) ==
    << Category("DISCOVERY",
                <<disc_api(c), disc_pricing(c), disc_directories(c), disc_metadata(c)>>),
       Category("PURCHASE",
                <<purch_signup(c), purch_captcha(c), purch_billing(c),
                  purch_crypto(c), purch_protocols(c)>>),
       Category("INTEGRATION",
                <<int_mcp(c), int_structured(c), int_sandbox(c), int_ratelimits(c)>>),
       Category("TRUST",
                <<trust_pricing(c), trust_spend(c), trust_sla(c), trust_tos(c)>>) >>

\* the grade ladder, mutated to put the A threshold one point higher
GradeOfStrictA(totalScore) ==
    IF totalScore > 35 THEN "A"
    ELSE IF totalScore >= 28 THEN "B"
    ELSE IF totalScore >= 20 THEN "C"
    ELSE IF totalScore >= 10 THEN "D"
    ELSE "F"

\* if (totalScore >= 35) grade = "A"; else if ...
GradeOf(totalScore) ==
    IF totalScore >= 35 THEN "A"
    ELSE IF totalScore >= 28 THEN "B"
    ELSE IF totalScore >= 20 THEN "C"
    ELSE IF totalScore >= 10 THEN "D"
    ELSE "F"

\* the total, mutated to start the reduce at the second category
TotalOfSkipsFirst(cats) == SumScores(Tail(cats))

\* categories.reduce((sum, c) => sum + c.score, 0)
TotalOf(cats) == SumScores(cats)

\* the returned ScoringResult (id and timestamp left out)
MakeResult(url, cats, crawled, errs) ==
    [url |-> url, totalScore |-> TotalOf(cats), maxScore |-> 40,
     grade |-> GradeOf(TotalOf(cats)), categories |-> cats,
     crawledPages |-> crawled, errors |-> errs]

\* ------------------------------------------------------------------------
\* Crawl constants and pure helpers (scoreUrl, lines 298-380)
\* ------------------------------------------------------------------------

\* const SEED_PATHS = [...]
SEED_PATHS ==
    << <<>>,
       <<"/", "docs">>, <<"/", "api">>, <<"/", "pricing">>,
       <<"/", "developer", "s">>, <<"/", "developer">>,
       <<"/", "api", "-", "docs">>, <<"/", "documentation">>,
       <<"/", "swagger">>, <<"/", "openapi">>,
       <<"/", "terms">>, <<"/", "tos">>,
       <<"/", "terms", "-", "of", "-", "service">>, <<"/", "legal">>,
       <<"/", "sla">>, <<"/", "status">>, <<"/", "security">>,
       <<"/", "sandbox">>, <<"/", "playground">>, <<"/", "test">>,
       <<"/", "integrations">>, <<"/", "plugins">>, <<"/", "marketplace">> >>

\* const SUBDOMAIN_PREFIXES = ["docs", "developer", "developers", "api", "status"]
SUBDOMAIN_PREFIXES ==
    << <<"docs">>, <<"developer">>, <<"developer", "s">>, <<"api">>, <<"status">> >>

MAX_CRAWL_PAGES == 30

BATCH_SIZE == 5

\* fetchPage(url, timeout = 12000, retries = 2)
DEFAULT_RETRIES == 2

\* the four paths the disc_metadata evaluator probes
OPENAPI_PATHS ==
    << <<"/", "openapi", ".", "json">>,
       <<"/", "swagger", ".", "json">>,
       <<"/", "api", "-", "docs", "/", "swagger", ".", "json">>,
       <<"/", ".", "well", "-", "known", "/", "openapi", ".", "json">> >>

\* the atoms that are not word characters (\W): every other atom is a run of \w
PunctAtoms == {"/", "-", ".", " ", ":", "$", "=", "\"", "+", "\n", "<a href=", ">"}

IsWord(a) == a \notin PunctAtoms

\* /\b(alt)\b/.test(path) for one alternative of word characters and hyphens
MatchWord(path, alt) ==
    \E i \in 1..(Len(path) - Len(alt) + 1) :
        /\ SubStr(path, i, i + Len(alt) - 1) = alt
        /\ (i = 1 \/ ~IsWord(path[i - 1]))
        /\ (i + Len(alt) - 1 = Len(path) \/ ~IsWord(path[i + Len(alt)]))

\* const RELEVANT_PATTERNS = [...]: the alternatives of the nine patterns
RELEVANT_PATTERNS ==
    { <<"api">>, <<"doc">>, <<"docs">>, <<"documentation">>, <<"developer">>,
      <<"reference">>, <<"sdk">>,
      <<"pric">>, <<"plan">>, <<"billing">>, <<"subscription">>, <<"cost">>,
      <<"terms">>, <<"tos">>, <<"legal">>, <<"privacy">>, <<"policy">>, <<"compliance">>,
      <<"integrat">>, <<"plugin">>, <<"marketplace">>, <<"partner">>, <<"connect">>,
      <<"security">>, <<"sla">>, <<"status">>, <<"uptime">>, <<"trust">>,
      <<"sandbox">>, <<"playground">>, <<"test">>, <<"demo">>, <<"trial">>,
      <<"get", "-", "started">>, <<"getstarted">>,
      <<"sign", "-", "up">>, <<"signup">>, <<"register">>, <<"onboard">>,
      <<"quick", "-", "start">>, <<"quickstart">>,
      <<"openapi">>, <<"swagger">>, <<"graphql">>, <<"rest">>, <<"webhook">>,
      <<"kyc">>, <<"identity">>, <<"verif">>, <<"aml">>, <<"comply">> }

\* the extensions of /\.(png|jpg|...)$/
SkippedExtensions ==
    {"png", "jpg", "jpeg", "gif", "svg", "css", "js", "woff", "ico", "pdf", "mp4", "webm"}

\* the segments of /\/(blog|press|...)\b/
SkippedSegments ==
    { <<"blog">>, <<"press">>, <<"news">>, <<"careers">>, <<"jobs">>,
      <<"about", "-", "us">>, <<"team">>, <<"contact", "-", "us">>,
      <<"events">>, <<"podcast">>, <<"webinar">> }

\* /\/(seg)\b/.test(path)
MatchSegment(path, seg) ==
    \E i \in 1..(Len(path) - Len(seg)) :
        /\ path[i] = "/"
        /\ SubStr(path, i + 1, i + Len(seg)) = seg
        /\ (i + Len(seg) = Len(path) \/ ~IsWord(path[i + Len(seg) + 1]))

\* isRelevantUrl(url)
isRelevantUrl(url) ==
    \E path \in {ParseUrl(url).pathname} :
       /\ ~(Len(path) >= 2 /\ path[Len(path) - 1] = "." /\ path[Len(path)] \in SkippedExtensions)
       /\ ~(\E seg \in SkippedSegments : MatchSegment(path, seg))
       /\ \E alt \in RELEVANT_PATTERNS : MatchWord(path, alt)

\* new URL(href, baseUrl) with baseUrl an origin; ok = FALSE when it throws
ResolveUrl(href, base) ==
    IF StartsWith(href, HTTPS) \/ StartsWith(href, HTTP) THEN ParseUrl(href)
    ELSE IF href = <<>> THEN ParseUrl(base)
    ELSE IF Head(href) = "/" THEN ParseUrl(base \o href)
    ELSE ParseUrl(base \o <<"/">> \o href)

RECURSIVE findLinksFrom(_, _)
findLinksFrom(hrefs, baseUrl) ==
    IF hrefs = <<>> THEN <<>>
    ELSE CHOOSE r \in
            {(IF u.ok THEN <<UrlHref(u)>> ELSE <<>>) \o findLinksFrom(rest, baseUrl) :
               <<u, rest>> \in {<<ResolveUrl(Head(hrefs), baseUrl), Tail(hrefs)>>}} : TRUE

\* findLinks(html, baseUrl): every a[href] resolved against baseUrl, failures dropped
findLinks(html, baseUrl) == findLinksFrom(html.hrefs, baseUrl)

RECURSIVE RawAnchors(_)
RawAnchors(hrefs) ==
    IF hrefs = <<>> THEN <<>>
    ELSE <<"<a href=">> \o Head(hrefs) \o <<">">> \o RawAnchors(Tail(hrefs))

\* the page as the string fetchPage returns: its text, then its anchors
RawHtml(html) == html.text \o RawAnchors(html.hrefs)

\* pathname.replace(/\/$/, "")
StripTrailingSlash(path) ==
    IF path # <<>> /\ path[Len(path)] = "/" THEN SubStr(path, 1, Len(path) - 1) ELSE path

RECURSIVE Dedupe(_, _)
\* [...new Set(xs)]: first occurrences, in order
Dedupe(xs, seen) ==
    IF xs = <<>> THEN <<>>
    ELSE IF Head(xs) \in seen THEN Dedupe(Tail(xs), seen)
    ELSE <<Head(xs)>> \o Dedupe(Tail(xs), seen \cup {Head(xs)})

\* xs.slice(0, n)
Slice0(xs, n) == IF n <= 0 THEN <<>> ELSE SubStr(xs, 1, Min(n, Len(xs)))

\* Map.set(key, value) on an insertion-ordered map kept as a sequence of entries
MapSet(m, key, value) ==
    IF \E i \in 1..Len(m) : m[i].key = key
    THEN [i \in 1..Len(m) |-> IF m[i].key = key THEN [key |-> key, html |-> value] ELSE m[i]]
    ELSE Append(m, [key |-> key, html |-> value])

MapKeys(m) == {m[i].key : i \in 1..Len(m)}

\* ------------------------------------------------------------------------
\* The sites the fetcher talks to: what fetch() does for a URL on an attempt
\* ------------------------------------------------------------------------

NBig == 34

MaxLabels == 4

MaxSignals == 3

PageNames ==
    << "p1", "p2", "p3", "p4", "p5", "p6", "p7", "p8", "p9", "p10",
       "p11", "p12", "p13", "p14", "p15", "p16", "p17", "p18", "p19", "p20",
       "p21", "p22", "p23", "p24", "p25", "p26", "p27", "p28", "p29", "p30",
       "p31", "p32", "p33", "p34", "p35", "p36", "p37", "p38", "p39", "p40" >>

\* `https://${sub}.${baseDomain}`
SubdomainUrl(sub, d) == HTTPS \o sub \o <<".">> \o d

\* allSeeds = [...SEED_PATHS.map(p => origin + p), ...subdomainSeeds]
allSeeds(o, d) ==
    [i \in 1..Len(SEED_PATHS) |-> o \o SEED_PATHS[i]]
    \o [i \in 1..Len(SUBDOMAIN_PREFIXES) |-> SubdomainUrl(SUBDOMAIN_PREFIXES[i], d)]

Range(f) == {f[i] : i \in DOMAIN f}

BigLinks == [n \in 1..NBig |-> <<"/", "docs", "/", PageNames[n]>>]

SiteNames == {"dead", "down", "home", "docs", "full", "big", "flaky", "apionly"}

DocsSiteLinks(d) ==
    << <<"/", "docs", "/">>,
       <<"/", "billing">>,
       <<"/", "blog", "/", "api">>,
       <<"/", "logo", ".", "png">>,
       SubdomainUrl(<<"docs">>, d) \o <<"/", "api">>,
       HTTPS \o <<"not">> \o d \o <<"/", "docs">>,
       HTTPS \o <<"other", ".", "org", "/", "docs">>,
       <<"/", "about">>,
       <<"/", "billing">>,
       HTTPS \o WWWDOT \o d \o <<"/", "docs">>,
       HTTP \o <<>>,
       <<"/", "api">> >>

\* the URLs a site answers with status 200 once it answers
SiteServes(name, o, d) ==
    CASE name = "home" -> {o}
      [] name = "docs" -> {o, o \o <<"/", "docs">>, o \o <<"/", "api">>,
                           SubdomainUrl(<<"docs">>, d),
                           o \o <<"/", "billing">>, o \o <<"/", "privacy">>,
                           SubdomainUrl(<<"docs">>, d) \o <<"/", "api">>,
                           HTTPS \o <<"not">> \o d \o <<"/", "docs">>,
                           HTTPS \o WWWDOT \o d \o <<"/", "docs">>,
                           o \o OPENAPI_PATHS[2]}
      [] name = "full" -> Range(allSeeds(o, d))
                          \cup {o \o <<"/", "billing">>, o \o <<"/", "privacy">>,
                                o \o <<"/", "partner">>, o \o <<"/", "trust">>,
                                o \o <<"/", "docs", "/", "api">>,
                                o \o OPENAPI_PATHS[1]}
      [] name = "big" -> {o} \cup {o \o BigLinks[n] : n \in 1..NBig}
      [] name = "flaky" -> {o, o \o <<"/", "pricing">>, o \o <<"/", "api">>}
      [] name = "apionly" -> {o \o OPENAPI_PATHS[4]}
      [] OTHER -> {}

\* how many attempts on a URL end in a network error or timeout before the
\* site answers (more than any retry budget: it never answers)
SiteThrows(name, o, d, url) ==
    CASE name = "dead" -> 99
      [] name = "flaky" /\ url = o -> 1
      [] name = "flaky" /\ url = o \o <<"/", "pricing">> -> 2
      [] name = "flaky" /\ url = o \o <<"/", "docs">> -> 99
      [] name = "flaky" /\ url = o \o OPENAPI_PATHS[1] -> 99
      [] name = "docs" /\ url = SubdomainUrl(<<"api">>, d) -> 99
      [] OTHER -> 0

\* fetch(url) on the given attempt: "throw", or the response's status class
FetchOutcome(name, o, d, url, attempt) ==
    IF attempt < SiteThrows(name, o, d, url) THEN "throw"
    ELSE IF url \in SiteServes(name, o, d) THEN "ok"
    ELSE "bad"

TextHome == <<"sign", " ", "up", " ", "for", " ", "our", " ", "rest", " ", "api">>
TextDocs == <<"api", " ", "reference", " ", "and", " ", "sdk", " ", "with", " ", "sandbox">>
TextPricing == <<"pricing", " ", "$", "10", " ", "/", "mo", " ", "or", " ", "contact", " ", "sales">>
TextSpec == <<"{", "\"", "openapi", "\"", ":", " ", "\"", "3", "\"", "}">>

\* resp.text() of a page the site serves
SiteHtml(name, o, d, url) ==
    CASE url \in {o \o OPENAPI_PATHS[i] : i \in 1..Len(OPENAPI_PATHS)} ->
             [text |-> TextSpec, hrefs |-> <<>>]
      [] name = "big" /\ url = o -> [text |-> TextHome, hrefs |-> BigLinks]
      [] name = "full" /\ url \in {o, o \o <<"/", "legal">>} ->
             [text |-> TextHome,
              hrefs |-> << <<"/", "billing">>, <<"/", "privacy">>,
                           <<"/", "partner">>, <<"/", "trust">> >>]
      [] name \in {"home", "docs"} /\ url = o ->
             [text |-> TextHome, hrefs |-> DocsSiteLinks(d)]
      [] url = SubdomainUrl(<<"docs">>, d) ->
             [text |-> TextDocs, hrefs |-> << <<"privacy">>, <<"/", "docs">> >>]
      [] url = o \o <<"/", "pricing">> -> [text |-> TextPricing, hrefs |-> <<>>]
      [] url = o \o <<"/", "docs">> ->
             [text |-> TextDocs, hrefs |-> << <<"/", "docs", "/", "api">> >>]
      [] OTHER -> [text |-> <<"ok">>, hrefs |-> <<>>]

\* ------------------------------------------------------------------------
\* State
\* ------------------------------------------------------------------------

VARIABLES
    inputUrl,      \* the string handed to scoreUrl (and body.url of the server)
    site,          \* which site the fetcher talks to in this run
    pc,            \* where scoreUrl is: start, seed, crawl, probe, rubric, aggregate, done, failed
    err,           \* the error scoreUrl threw, "none" if none
    baseUrl,       \* baseUrl after normalisation
    baseDomain,    \* baseUrl.hostname without a leading www.
    cacheKey,      \* normalizedUrl of the server's handler, NoKey before it runs
    visited,       \* the Set visited
    pages,         \* the Map pages, in insertion order; html is held as the URL it came from
    crawledPages,  \* the array crawledPages
    queue,         \* uniqueSeeds in phase 1, uniqueDiscovered in phase 3
    bi,            \* the loop index i (1-based); the probe's index in the probe loop
    slots,         \* the fetchPage calls of the batch awaited by Promise.all
    issued,        \* how many times fetch() was called, per URL
    errors,        \* the array errors
    corpus,        \* [text, links, keys, probe]: what the rubric reads
    categories,    \* the array categories
    result,        \* the ScoringResult returned, NoResult before
    signals        \* rubric runs only: the rows of SignalTable the corpus was built from

vars == <<inputUrl, site, pc, err, baseUrl, baseDomain, cacheKey, visited, pages,
          crawledPages, queue, bi, slots, issued, errors, corpus, categories, result,
          signals>>

NoKey == <<"(unset)">>
NoResult == [url |-> <<>>, totalScore |-> -1, maxScore |-> 40, grade |-> "",
             categories |-> <<>>, crawledPages |-> <<>>, errors |-> <<>>]
EmptyCorpus == [text |-> <<>>, links |-> <<>>, keys |-> {}, probe |-> FALSE]

origin == UrlOrigin(baseUrl)

\* the state of a run before scoreUrl is entered
Fresh ==
    /\ err = "none"
    /\ baseUrl = NoUrl
    /\ baseDomain = <<>>
    /\ cacheKey = NoKey
    /\ visited = {}
    /\ pages = <<>>
    /\ crawledPages = <<>>
    /\ queue = <<>>
    /\ bi = 1
    /\ slots = <<>>
    /\ issued = <<>>
    /\ errors = <<>>
    /\ corpus = EmptyCorpus
    /\ categories = <<>>
    /\ result = NoResult
    /\ signals = {}

\* ------------------------------------------------------------------------
\* scoreUrl, lines 382-420: validation, normalisation, the seed list
\* ------------------------------------------------------------------------

\* allSeeds.filter(u => { if (visited.has(u)) return false; visited.add(u); return true; })
uniqueSeeds(o, d) == Dedupe(allSeeds(o, d), {})

Validate ==
    /\ pc = "start"
    /\ LET v == ValidateInput(inputUrl)
       IN IF v.err # "none"
          THEN /\ pc' = "failed"
               /\ err' = v.err
               /\ UNCHANGED <<baseUrl, baseDomain, visited, queue>>
          ELSE /\ pc' = "seed"
               /\ err' = "none"
               /\ baseUrl' = v.url
               /\ baseDomain' = BaseDomainOf(baseUrl'.hostname)
               /\ queue' = uniqueSeeds(UrlOrigin(baseUrl'), baseDomain')
               /\ visited' = Range(queue')
    /\ UNCHANGED <<inputUrl, site, signals, cacheKey, pages, crawledPages, bi, slots, issued,
                   errors, corpus, categories, result>>

\* server.ts, POST /api/score up to the cache lookup
ServerCacheKey ==
    /\ cacheKey = NoKey
    /\ inputUrl # <<>>
    /\ cacheKey' = ServerKeyOf(inputUrl)
    /\ UNCHANGED <<inputUrl, site, signals, pc, err, baseUrl, baseDomain, visited, pages,
                   crawledPages, queue, bi, slots, issued, errors, corpus, categories,
                   result>>

\* ------------------------------------------------------------------------
\* fetchPage: one slot per call awaited by the current Promise.all
\* ------------------------------------------------------------------------

\* issued[url] + 1
CountFetch(log, url) ==
    IF \E i \in 1..Len(log) : log[i].url = url
    THEN [i \in 1..Len(log) |->
             IF log[i].url = url THEN [url |-> url, n |-> log[i].n + 1] ELSE log[i]]
    ELSE Append(log, [url |-> url, n |-> 1])

RECURSIVE CountFetches(_, _)
\* one fetch() call per URL of the batch, in order; the log is bound once per URL
CountFetches(log, urls) ==
    IF urls = <<>> THEN log
    ELSE CHOOSE r \in {CountFetches(next, Tail(urls)) :
                          next \in {CountFetch(log, Head(urls))}} : TRUE

\* setTimeout(r, 500 * (attempt + 1))
BACKOFF_MS == 500

\* a fetchPage call that has just called fetch() for the first time
NewSlot(url, retries) ==
    [url |-> url, retries |-> retries, attempt |-> 0, st |-> "flying", res |-> "none",
     delay |-> 0]

\* the catch block of fetchPage, mutated to rethrow instead of retrying
SettleRethrows(s, outcome) ==
    IF outcome = "throw" THEN [s EXCEPT !.st = "thrown", !.res = "null"]
    ELSE [s EXCEPT !.st = "done", !.res = outcome]

\* the catch block of fetchPage, mutated to back off after the last attempt too
SettleAlwaysBacksOff(s, outcome) ==
    IF outcome = "throw"
    THEN [s EXCEPT !.st = "waiting", !.delay = BACKOFF_MS * (s.attempt + 1)]
    ELSE [s EXCEPT !.st = "done", !.res = outcome]

\* one attempt of fetchPage settles: a response is returned whatever its status,
\* a throw is caught and either waits for the backoff or ends the loop with null
Settle(s, outcome) ==
    IF outcome = "throw"
    THEN IF s.attempt < s.retries
         THEN [s EXCEPT !.st = "waiting", !.delay = BACKOFF_MS * (s.attempt + 1)]
         ELSE [s EXCEPT !.st = "done", !.res = "null"]
    ELSE [s EXCEPT !.st = "done", !.res = outcome]

\* fetch() settles for the k-th call of the batch
FetchSettles(k) ==
    /\ k \in DOMAIN slots
    /\ slots[k].st = "flying"
    /\ slots' = [slots EXCEPT ![k] =
                    Settle(@, FetchOutcome(site, origin, baseDomain, @.url, @.attempt))]
    /\ UNCHANGED <<inputUrl, site, signals, pc, err, baseUrl, baseDomain, cacheKey, visited, pages,
                   crawledPages, queue, bi, issued, errors, corpus, categories, result>>

\* the backoff timer of the k-th call fires: the next attempt calls fetch()
BackoffElapses(k) ==
    /\ k \in DOMAIN slots
    /\ slots[k].st = "waiting"
    /\ slots' = [slots EXCEPT ![k] = [@ EXCEPT !.attempt = @ + 1, !.st = "flying",
                                                !.delay = 0]]
    /\ issued' = CountFetch(issued, slots[k].url)
    /\ UNCHANGED <<inputUrl, site, signals, pc, err, baseUrl, baseDomain, cacheKey, visited, pages,
                   crawledPages, queue, bi, errors, corpus, categories, result>>

\* the await of the batch, mutated to resume as soon as one call has returned
AllSettledAnyOne == slots # <<>> /\ \E k \in DOMAIN slots : slots[k].st = "done"

\* await Promise.all(batch.map(...)): every fetchPage call of the batch has returned
AllSettled == slots # <<>> /\ \A k \in DOMAIN slots : slots[k].st = "done"

\* result && result.status < 400
Usable(s) == s.res = "ok"

\* the html of a page held in the Page map
HtmlOf(handle) == SiteHtml(site, origin, baseDomain, handle)

\* ------------------------------------------------------------------------
\* Phase 1: the seed crawl (lines 421-435)
\* ------------------------------------------------------------------------

\* uniqueSeeds.slice(i, i + BATCH_SIZE)
BatchOf(q, i) == SubStr(q, i, Min(i + BATCH_SIZE - 1, Len(q)))

\* the key of a seed page, mutated to key every seed of another host by its URL
SeedPageKeyByHost(fullUrl, o) ==
    IF ParseUrl(fullUrl).hostname = ParseUrl(o).hostname
    THEN ParseUrl(fullUrl).pathname ELSE fullUrl

\* fullUrl.startsWith(origin) ? (new URL(fullUrl).pathname || "/") : fullUrl
SeedPageKey(fullUrl, o) ==
    IF StartsWith(fullUrl, o) THEN ParseUrl(fullUrl).pathname ELSE fullUrl

RECURSIVE RecordSeedsAsCompleted(_, _, _)
\* the loop over the results, mutated to take them in the order the calls
\* returned (fewest attempts first) instead of the order of the batch
RecordSeedsAsCompleted(ss, acc, o) ==
    IF ss = <<>> THEN acc
    ELSE LET k == CHOOSE k \in DOMAIN ss :
                     \A j \in DOMAIN ss :
                        \/ ss[k].attempt < ss[j].attempt
                        \/ ss[k].attempt = ss[j].attempt /\ k <= j
             s == ss[k]
         IN RecordSeedsAsCompleted(
               SubStr(ss, 1, k - 1) \o SubStr(ss, k + 1, Len(ss)),
               IF Usable(s)
               THEN [pages |-> MapSet(acc.pages, SeedPageKey(s.url, o), s.url),
                     crawled |-> Append(acc.crawled, s.url)]
               ELSE acc,
               o)

RECURSIVE RecordSeeds(_, _, _)
\* for (const { fullUrl, result } of results) { if (result && result.status < 400) ... }
RecordSeeds(ss, acc, o) ==
    IF ss = <<>> THEN acc
    ELSE LET s == Head(ss)
         IN CHOOSE r \in
               {RecordSeeds(Tail(ss), next, o) :
                  next \in {IF Usable(s)
                            THEN [pages |-> MapSet(acc.pages, SeedPageKey(s.url, o), s.url),
                                  crawled |-> Append(acc.crawled, s.url)]
                            ELSE acc}} : TRUE

IssueSeedBatch ==
    /\ pc = "seed"
    /\ slots = <<>>
    /\ bi <= Len(queue)
    /\ slots' = [k \in 1..Len(BatchOf(queue, bi)) |->
                    NewSlot(BatchOf(queue, bi)[k], DEFAULT_RETRIES)]
    /\ issued' = CountFetches(issued, BatchOf(queue, bi))
    /\ UNCHANGED <<inputUrl, site, signals, pc, err, baseUrl, baseDomain, cacheKey, visited, pages,
                   crawledPages, queue, bi, errors, corpus, categories, result>>

RecordSeedBatch ==
    /\ pc = "seed"
    /\ AllSettled
    /\ \E acc \in {RecordSeeds(slots, [pages |-> pages, crawled |-> crawledPages], origin)} :
          /\ pages' = acc.pages
          /\ crawledPages' = acc.crawled
    /\ bi' = bi + BATCH_SIZE
    /\ slots' = <<>>
    /\ UNCHANGED <<inputUrl, site, signals, pc, err, baseUrl, baseDomain, cacheKey, visited,
                   queue, issued, errors, corpus, categories, result>>

\* ------------------------------------------------------------------------
\* Phase 2: link discovery (lines 437-457)
\* ------------------------------------------------------------------------

\* the same-site test, mutated to accept every host
SameSiteAny(hostname, d) == TRUE

\* parsed.hostname.replace(/^www\./, "").endsWith(baseDomain)
SameSite(hostname, d) == EndsWith(BaseDomainOf(hostname), d)

\* parsed.origin + parsed.pathname.replace(/\/$/, "")
NormalizeLink(link) ==
    LET parsed == ParseUrl(link)
    IN UrlOrigin(parsed) \o StripTrailingSlash(parsed.pathname)

RECURSIVE DiscoverLinks(_, _, _)
\* the inner loop of phase 2 over the links of one page
DiscoverLinks(links, d, seen) ==
    IF links = <<>> THEN <<>>
    ELSE LET keep(link, normalized) ==
                 /\ SameSite(ParseUrl(link).hostname, d)
                 /\ normalized \notin seen
                 /\ isRelevantUrl(normalized)
         IN CHOOSE r \in
               {(IF keep(link, normalized) THEN <<normalized>> ELSE <<>>)
                   \o DiscoverLinks(rest, d, seen) :
                  <<link, normalized, rest>> \in
                     {<<Head(links), NormalizeLink(Head(links)), Tail(links)>>}} : TRUE

RECURSIVE DiscoverPages(_, _, _, _)
\* the outer loop of phase 2 over the Page map, in insertion order
DiscoverPages(entries, o, d, seen) ==
    IF entries = <<>> THEN <<>>
    ELSE CHOOSE r \in
            {DiscoverLinks(links, d, seen) \o DiscoverPages(rest, o, d, seen) :
               <<links, rest>> \in
                  {<<findLinks(HtmlOf(Head(entries).html), o), Tail(entries)>>}} : TRUE

\* the cap on the candidates, mutated to leave them uncapped
CapDiscoveredNone(found, nPages) == Dedupe(found, {})

\* the cap on the candidates, mutated to skip the Set that removes duplicates
CapDiscoveredKeepsDuplicates(found, nPages) == Slice0(found, MAX_CRAWL_PAGES - nPages)

\* the cap on the candidates, mutated to stop one short of the room left
CapDiscoveredOneShort(found, nPages) ==
    Slice0(Dedupe(found, {}), MAX_CRAWL_PAGES - nPages - 1)

\* [...new Set(discoveredUrls)].slice(0, MAX_CRAWL_PAGES - pages.size)
CapDiscovered(found, nPages) == Slice0(Dedupe(found, {}), MAX_CRAWL_PAGES - nPages)

Discover ==
    /\ pc = "seed"
    /\ slots = <<>>
    /\ bi > Len(queue)
    /\ \E discoveredUrls \in {DiscoverPages(pages, origin, baseDomain, visited)} :
          queue' = CapDiscovered(discoveredUrls, Len(pages))
    /\ bi' = 1
    /\ pc' = "crawl"
    /\ UNCHANGED <<inputUrl, site, signals, err, baseUrl, baseDomain, cacheKey, visited, pages,
                   crawledPages, slots, issued, errors, corpus, categories, result>>

\* ------------------------------------------------------------------------
\* Phase 3: the discovery crawl (lines 459-476)
\* ------------------------------------------------------------------------

RECURSIVE RecordCrawled(_, _)
\* for (const { url, result } of results) { if (pages.size >= MAX) break; ... }
RecordCrawled(ss, acc) ==
    IF ss = <<>> \/ Len(acc.pages) >= MAX_CRAWL_PAGES THEN acc
    ELSE LET s == Head(ss)
         IN CHOOSE r \in
               {RecordCrawled(Tail(ss), next) :
                  next \in {IF Usable(s)
                            THEN [pages |-> MapSet(acc.pages, ParseUrl(s.url).pathname, s.url),
                                  crawled |-> Append(acc.crawled, s.url)]
                            ELSE acc}} : TRUE

\* i < uniqueDiscovered.length && pages.size < MAX_CRAWL_PAGES
CrawlGoesOn == bi <= Len(queue) /\ Len(pages) < MAX_CRAWL_PAGES

IssueCrawlBatch ==
    /\ pc = "crawl"
    /\ slots = <<>>
    /\ CrawlGoesOn
    /\ visited' = visited \cup Range(BatchOf(queue, bi))
    /\ slots' = [k \in 1..Len(BatchOf(queue, bi)) |->
                    NewSlot(BatchOf(queue, bi)[k], DEFAULT_RETRIES)]
    /\ issued' = CountFetches(issued, BatchOf(queue, bi))
    /\ UNCHANGED <<inputUrl, site, signals, pc, err, baseUrl, baseDomain, cacheKey, pages,
                   crawledPages, queue, bi, errors, corpus, categories, result>>

RecordCrawlBatch ==
    /\ pc = "crawl"
    /\ AllSettled
    /\ \E acc \in {RecordCrawled(slots, [pages |-> pages, crawled |-> crawledPages])} :
          /\ pages' = acc.pages
          /\ crawledPages' = acc.crawled
    /\ bi' = bi + BATCH_SIZE
    /\ slots' = <<>>
    /\ UNCHANGED <<inputUrl, site, signals, pc, err, baseUrl, baseDomain, cacheKey, visited,
                   queue, issued, errors, corpus, categories, result>>

\* ------------------------------------------------------------------------
\* The soft error and the corpus (lines 478-488)
\* ------------------------------------------------------------------------

RECURSIVE PageTexts(_)
PageTexts(entries) ==
    IF entries = <<>> THEN <<>>
    ELSE <<RawHtml(HtmlOf(Head(entries).html))>> \o PageTexts(Tail(entries))

RECURSIVE PageLinks(_, _)
PageLinks(entries, o) ==
    IF entries = <<>> THEN <<>>
    ELSE findLinks(HtmlOf(Head(entries).html), o) \o PageLinks(Tail(entries), o)

\* the soft error, mutated to be recorded when fewer than two pages were fetched
SoftErrorsBelowTwo(m) ==
    IF Len(m) <= 1 THEN <<"Could not fetch any pages from this URL">> ELSE <<>>

\* if (pages.size === 0) errors.push("Could not fetch any pages from this URL")
SoftErrors(m) ==
    IF Len(m) = 0 THEN <<"Could not fetch any pages from this URL">> ELSE <<>>

FinishCrawl ==
    /\ pc = "crawl"
    /\ slots = <<>>
    /\ ~CrawlGoesOn
    /\ errors' = SoftErrors(pages)
    /\ \E texts \in {PageTexts(pages)}, links \in {PageLinks(pages, origin)} :
          corpus' = [text  |-> JoinWith(texts, <<"\n">>),
                     links |-> JoinWith(links, <<" ">>),
                     keys  |-> MapKeys(pages),
                     probe |-> FALSE]
    /\ bi' = 1
    /\ pc' = "probe"
    /\ UNCHANGED <<inputUrl, site, signals, err, baseUrl, baseDomain, cacheKey, visited, pages,
                   crawledPages, queue, slots, issued, categories, result>>

\* ------------------------------------------------------------------------
\* The direct OpenAPI probes of disc_metadata (lines 548-556)
\* ------------------------------------------------------------------------

\* await fetchPage(origin + p, 3000)
IssueProbe ==
    /\ pc = "probe"
    /\ slots = <<>>
    /\ bi <= Len(OPENAPI_PATHS)
    /\ slots' = <<NewSlot(origin \o OPENAPI_PATHS[bi], DEFAULT_RETRIES)>>
    /\ issued' = CountFetch(issued, origin \o OPENAPI_PATHS[bi])
    /\ UNCHANGED <<inputUrl, site, signals, pc, err, baseUrl, baseDomain, cacheKey, visited, pages,
                   crawledPages, queue, bi, errors, corpus, categories, result>>

\* r && r.status === 200 && r.html.includes('"openapi"')
ProbeFound(s) ==
    /\ s.res = "ok"
    /\ TextHas(RawHtml(HtmlOf(s.url)), <<"\"", "openapi", "\"">>)

RecordProbe ==
    /\ pc = "probe"
    /\ AllSettled
    /\ slots' = <<>>
    /\ IF ProbeFound(slots[1])
       THEN /\ corpus' = [corpus EXCEPT !.probe = TRUE]
            /\ pc' = "rubric"
            /\ bi' = bi
       ELSE /\ corpus' = corpus
            /\ bi' = bi + 1
            /\ pc' = IF bi + 1 > Len(OPENAPI_PATHS) THEN "rubric" ELSE "probe"
    /\ UNCHANGED <<inputUrl, site, signals, err, baseUrl, baseDomain, cacheKey, visited, pages,
                   crawledPages, queue, issued, errors, categories, result>>

\* ------------------------------------------------------------------------
\* The rubric and the result (lines 490-806)
\* ------------------------------------------------------------------------

ScoreRubric ==
    /\ pc = "rubric"
    /\ categories' = Categories(corpus)
    /\ pc' = "aggregate"
    /\ UNCHANGED <<inputUrl, site, signals, err, baseUrl, baseDomain, cacheKey, visited, pages,
                   crawledPages, queue, bi, slots, issued, errors, corpus, result>>

BuildResult ==
    /\ pc = "aggregate"
    /\ result' = MakeResult(origin, categories, crawledPages, errors)
    /\ pc' = "done"
    /\ UNCHANGED <<inputUrl, site, signals, err, baseUrl, baseDomain, cacheKey, visited, pages,
                   crawledPages, queue, bi, slots, issued, errors, corpus, categories>>

\* ------------------------------------------------------------------------
\* The runs checked: scoreUrl end to end
\* ------------------------------------------------------------------------

AcmeCom == <<"acme", ".", "com">>

\* the inputs and sites of the runs: accepted inputs on every site, the forms the
\* normaliser rewrites, and the inputs it rejects
Scenarios ==
    {<<AcmeCom, s>> : s \in SiteNames}
    \cup { <<WWWDOT \o AcmeCom, "home">>,
           <<HTTP \o AcmeCom \o <<"/", "docs">>, "docs">>,
           <<(<<"docs", ".", "docs">>), "full">>,
           <<(<<"acme">>), "home">>,
           <<(<<"http", "bin", ".", "org">>), "home">>,
           <<WWWDOT, "home">>,
           <<(<<>>), "home">> }

Init ==
    /\ \E sc \in Scenarios : inputUrl = sc[1] /\ site = sc[2]
    /\ pc = "start"
    /\ Fresh

Next ==
    \/ Validate
    \/ IssueSeedBatch
    \/ \E k \in 1..BATCH_SIZE : FetchSettles(k)
    \/ \E k \in 1..BATCH_SIZE : BackoffElapses(k)
    \/ RecordSeedBatch
    \/ Discover
    \/ IssueCrawlBatch
    \/ RecordCrawlBatch
    \/ FinishCrawl
    \/ IssueProbe
    \/ RecordProbe
    \/ ScoreRubric
    \/ BuildResult

Spec == Init /\ [][Next]_vars

\* every pending promise or timer of the run is eventually run by the event loop
FairSpec == Spec /\ WF_vars(Next)

\* ------------------------------------------------------------------------
\* The normaliser on its own, over every input of a bounded shape
\* ------------------------------------------------------------------------

LabelAtoms == {"www", "acme", "com", "bin"}

HostsOf(n) == {JoinWith([i \in 1..n |-> <<f[i]>>], <<".">>) : f \in [1..n -> LabelAtoms]}

\* [scheme | "http" glued on] host [path], the host of up to MaxLabels labels
NormInputs ==
    { pre \o h \o path :
        pre \in {<<>>, HTTP, HTTPS, <<"http">>},
        h \in UNION {HostsOf(n) : n \in 0..MaxLabels},
        path \in {<<>>, <<"/", "docs">>} }

InitNorm ==
    /\ inputUrl \in NormInputs
    /\ site = "down"
    /\ pc = "start"
    /\ Fresh

NextNorm ==
    \/ Validate
    \/ ServerCacheKey

SpecNorm == InitNorm /\ [][NextNorm]_vars

\* ------------------------------------------------------------------------
\* The rubric on its own, over every corpus of a bounded number of signals
\* ------------------------------------------------------------------------

Sep == <<" ", ";", " ">>

RichDiscovery ==
    <<"api", " ", "docs">> \o Sep \o <<"schema", ".", "org", "/", "offer">> \o Sep
    \o <<"rapidapi">> \o Sep \o <<"api", " ", "directory">> \o Sep \o <<"swagger">>
RichPurchase ==
    <<"self", "-", "serve">> \o Sep \o <<"usage", "-", "based">> \o Sep
    \o <<"bitcoin">> \o Sep \o <<"x402">>
RichIntegration ==
    <<"mcp">> \o Sep \o <<"json", " ", "api">> \o Sep \o <<"sdk">> \o Sep
    \o <<"sandbox">> \o Sep \o <<"quota">>
RichTrust ==
    <<"$">> \o Sep \o <<"budget">> \o Sep \o <<"uptime">> \o Sep
    \o <<"programmatic", " ", "access">>

\* what a fetched page can add to the corpus: a text, a link, a key of the Page
\* map, or a successful OpenAPI probe
SignalTable ==
    << [kind |-> "text", val |-> <<"kyc">>],
       [kind |-> "text", val |-> <<"contact", " ", "sales">>],
       [kind |-> "text", val |-> <<"sign", " ", "up">>],
       [kind |-> "text", val |-> <<"self", "-", "serve">>],
       [kind |-> "text", val |-> <<"instant", " ", "access">>],
       [kind |-> "text", val |-> <<"openapi", ".", "y", "aml">>],
       [kind |-> "text", val |-> <<"re", "captcha">>],
       [kind |-> "text", val |-> <<"no", " ", "bot", "s">>],
       [kind |-> "text", val |-> <<"automated">>],
       [kind |-> "text", val |-> <<"$">>],
       [kind |-> "text", val |-> <<"enterprise">>],
       [kind |-> "text", val |-> <<"mcp", " ", "server">>],
       [kind |-> "text", val |-> <<"agent", " ", "protocol">>],
       [kind |-> "text", val |-> <<"rest", " ", "api">>],
       [kind |-> "text", val |-> <<"pricing">>],
       [kind |-> "text", val |-> <<"custom", " ", "pricing">>],
       [kind |-> "text", val |-> RichDiscovery],
       [kind |-> "text", val |-> RichPurchase],
       [kind |-> "text", val |-> RichIntegration],
       [kind |-> "text", val |-> RichTrust],
       [kind |-> "text",
        val |-> RichDiscovery \o Sep \o RichPurchase \o Sep \o RichIntegration
                \o Sep \o RichTrust],
       [kind |-> "link", val |-> HTTPS \o AcmeCom \o <<"/", "docs">>],
       [kind |-> "link", val |-> HTTPS \o <<"api", ".">> \o AcmeCom],
       [kind |-> "key", val |-> <<"/", "docs">>],
       [kind |-> "key", val |-> <<"/", "pricing">>],
       [kind |-> "key", val |-> <<"/", "status">>],
       [kind |-> "key", val |-> <<"/", "terms">>],
       [kind |-> "probe", val |-> <<>>] >>

RECURSIVE SignalVals(_, _, _)
\* the values of the chosen signals of one kind, in table order
SignalVals(i, chosen, kind) ==
    IF i > Len(SignalTable) THEN <<>>
    ELSE (IF i \in chosen /\ SignalTable[i].kind = kind
          THEN <<SignalTable[i].val>> ELSE <<>>)
         \o SignalVals(i + 1, chosen, kind)

\* the corpus scoreUrl builds (lines 482-484) from pages carrying these signals
CorpusOf(chosen) ==
    [text  |-> JoinWith(SignalVals(1, chosen, "text"), <<"\n">>),
     links |-> JoinWith(SignalVals(1, chosen, "link"), <<" ">>),
     keys  |-> Range(SignalVals(1, chosen, "key")),
     probe |-> \E i \in chosen : SignalTable[i].kind = "probe"]

\* one more signal reaches the corpus (signals are taken in table order, so
\* that each set of signals is built once)
AddSignal(i) ==
    /\ pc = "gather"
    /\ Cardinality(signals) < MaxSignals
    /\ \A j \in signals : j < i
    /\ signals' = signals \cup {i}
    /\ corpus' = CorpusOf(signals \cup {i})
    /\ UNCHANGED <<inputUrl, site, pc, err, baseUrl, baseDomain, cacheKey, visited, pages,
                   crawledPages, queue, bi, slots, issued, errors, categories, result>>

\* the crawl and the probes are over: the rubric runs on the corpus gathered
CorpusReady ==
    /\ pc = "gather"
    /\ pc' = "rubric"
    /\ UNCHANGED <<inputUrl, site, signals, err, baseUrl, baseDomain, cacheKey, visited, pages,
                   crawledPages, queue, bi, slots, issued, errors, corpus, categories,
                   result>>

InitScore ==
    /\ inputUrl = AcmeCom
    /\ site = "down"
    /\ pc = "gather"
    /\ err = "none"
    /\ baseUrl = ParseUrl(HTTPS \o AcmeCom)
    /\ baseDomain = AcmeCom
    /\ cacheKey = NoKey
    /\ visited = {}
    /\ pages = <<>>
    /\ crawledPages = <<>>
    /\ queue = <<>>
    /\ bi = 1
    /\ slots = <<>>
    /\ issued = <<>>
    /\ errors = <<>>
    /\ corpus = EmptyCorpus
    /\ categories = <<>>
    /\ result = NoResult
    /\ signals = {}

NextScore ==
    \/ \E i \in 1..Len(SignalTable) : AddSignal(i)
    \/ CorpusReady
    \/ ScoreRubric
    \/ BuildResult

SpecScore == InitScore /\ [][NextScore]_vars

\* ------------------------------------------------------------------------
\* The aggregation on its own, over every vector of category scores
\* ------------------------------------------------------------------------

CategoryNames == <<"DISCOVERY", "PURCHASE", "INTEGRATION", "TRUST">>

InitGrade ==
    /\ inputUrl = AcmeCom
    /\ site = "down"
    /\ pc = "aggregate"
    /\ err = "none"
    /\ baseUrl = ParseUrl(HTTPS \o AcmeCom)
    /\ baseDomain = AcmeCom
    /\ cacheKey = NoKey
    /\ visited = {}
    /\ pages = <<>>
    /\ crawledPages = <<>>
    /\ queue = <<>>
    /\ bi = 1
    /\ slots = <<>>
    /\ issued = <<>>
    /\ errors = <<>>
    /\ corpus = EmptyCorpus
    /\ \E f \in [1..4 -> 0..10] :
          categories = [i \in 1..4 |->
                           [name |-> CategoryNames[i], maxPoints |-> 10,
                            score |-> f[i], subScores |-> <<>>]]
    /\ result = NoResult
    /\ signals = {}

NextGrade == BuildResult

SpecGrade == InitGrade /\ [][NextGrade]_vars

\* ------------------------------------------------------------------------
\* fetchPage on its own: a Promise.all of calls, for every retry budget
\* ------------------------------------------------------------------------

MaxRetries == 3

MaxCalls == 2

\* URLs that answer at once, after one or two failures, or never
FetchUrls ==
    { HTTPS \o AcmeCom \o p :
        p \in {<<>>, <<"/", "pricing">>, <<"/", "docs">>, <<"/", "api">>} }

InitFetch ==
    /\ inputUrl = AcmeCom
    /\ site = "flaky"
    /\ pc = "fetch"
    /\ err = "none"
    /\ baseUrl = ParseUrl(HTTPS \o AcmeCom)
    /\ baseDomain = AcmeCom
    /\ cacheKey = NoKey
    /\ visited = {}
    /\ pages = <<>>
    /\ crawledPages = <<>>
    /\ queue = <<>>
    /\ bi = 1
    /\ \E n \in 1..MaxCalls :
          \E urls \in [1..n -> FetchUrls], budget \in [1..n -> 0..MaxRetries] :
             /\ slots = [k \in 1..n |-> NewSlot(urls[k], budget[k])]
             /\ issued = CountFetches(<<>>, urls)
    /\ errors = <<>>
    /\ corpus = EmptyCorpus
    /\ categories = <<>>
    /\ result = NoResult
    /\ signals = {}

NextFetch ==
    \/ \E k \in 1..MaxCalls : FetchSettles(k)
    \/ \E k \in 1..MaxCalls : BackoffElapses(k)

SpecFetch == InitFetch /\ [][NextFetch]_vars

\* ------------------------------------------------------------------------
\* Properties
\* ------------------------------------------------------------------------

SoftErrorText == "Could not fetch any pages from this URL"

Returned == pc = "done"

\* the sub-score of a category of the returned result
SubOf(ci, si) == result.categories[ci].subScores[si]

\* every (category, sub-score) position of a result
SubPositions ==
    {<<ci, si>> \in (1..4) \X (1..5) :
        ci \in DOMAIN result.categories /\ si \in DOMAIN result.categories[ci].subScores}

\* C1: in every run, at every point of the crawl and in the returned result,
\* crawledPages holds at most 30 URLs.
C1_CrawledAtMost30 ==
    /\ Len(crawledPages) <= 30
    /\ Len(result.crawledPages) <= 30

\* C2: once validation has passed, every run ends with a ScoringResult returned,
\* whatever the fetcher does, and no run throws after validation.
C2_AlwaysReturns ==
    /\ (pc = "seed") ~> (Returned /\ result # NoResult)
    /\ [](pc \notin {"start", "failed"} => err = "none")

\* a run that returned although some fetchPage call used up all its attempts
C2_Witness ==
    /\ Returned
    /\ result # NoResult
    /\ \E i \in DOMAIN issued : issued[i].n = DEFAULT_RETRIES + 1

\* C3: in every returned result totalScore is the sum of the four category
\* scores, lies in 0..40, and maxScore is 40.
C3_TotalIsSum ==
    Returned =>
        /\ Len(result.categories) = 4
        /\ result.totalScore = result.categories[1].score + result.categories[2].score
                               + result.categories[3].score + result.categories[4].score
        /\ result.totalScore \in 0..40
        /\ result.maxScore = 40

\* a result in which every category scored and the total is in the upper half
C3_Witness ==
    /\ Returned
    /\ \A ci \in 1..4 : result.categories[ci].score > 0
    /\ result.totalScore >= 20

\* C4: in every returned result each category score is min(10, sum of its
\* sub-scores) and lies in 0..10, each sub-score lying in 0..its maxPoints.
C4_CategoryIsCappedSum ==
    Returned =>
        \A ci \in DOMAIN result.categories :
            LET cat == result.categories[ci]
            IN /\ cat.score = Min(10, SumScores(cat.subScores))
               /\ cat.score \in 0..10
               /\ Len(cat.subScores) \in {4, 5}
               /\ \A si \in DOMAIN cat.subScores :
                     cat.subScores[si].score \in 0..cat.subScores[si].maxPoints

\* a result with a category whose first sub-score counts and which is at its cap
C4_Witness ==
    /\ Returned
    /\ \E ci \in DOMAIN result.categories :
          /\ result.categories[ci].score = 10
          /\ result.categories[ci].subScores[1].score > 0

\* the input with the www. after its scheme, if any, taken off
SansWww(s) ==
    IF StartsWith(s, WWWDOT) THEN SubStr(s, 3, Len(s))
    ELSE IF StartsWith(s, HTTPS \o WWWDOT) THEN HTTPS \o SubStr(s, Len(HTTPS) + 3, Len(s))
    ELSE IF StartsWith(s, HTTP \o WWWDOT) THEN HTTP \o SubStr(s, Len(HTTP) + 3, Len(s))
    ELSE s

\* C5: for every accepted input the origin has no www. prefix, normalising the
\* origin again gives the same origin, the input without its leading www. gives
\* the same origin, and the server's cache key is that origin.
C5_NormalizationIdempotent ==
    pc = "seed" =>
        /\ ~StartsWith(baseUrl.hostname, WWWDOT)
        /\ ValidateInput(origin).err = "none"
        /\ UrlOrigin(ValidateInput(origin).url) = origin
        /\ SansWww(inputUrl) # inputUrl =>
              /\ ValidateInput(SansWww(inputUrl)).err = "none"
              /\ UrlOrigin(ValidateInput(SansWww(inputUrl)).url) = origin
        /\ cacheKey # NoKey => cacheKey = origin

\* C6: an input that does not parse fails with the invalid-URL error, one whose
\* parsed host has no dot with the not-a-full-URL error, and a failed run has
\* issued no fetch and produced no result.
C6_FatalBeforeFetch ==
    LET u == ParseUrl(IF StartsWith(inputUrl, <<"http">>) THEN inputUrl
                      ELSE HTTPS \o inputUrl)
    IN /\ (pc # "start" /\ ~u.ok) => (pc = "failed" /\ err = "InvalidUrl")
       /\ (pc # "start" /\ u.ok /\ ~Includes(u.hostname, <<".">>))
             => (pc = "failed" /\ err = "NotAFullUrl")
       /\ pc = "failed" =>
             /\ err # "none"
             /\ issued = <<>>
             /\ slots = <<>>
             /\ crawledPages = <<>>
             /\ result = NoResult

\* a run rejected because the host of its input has no dot
C6_Witness ==
    /\ pc = "failed"
    /\ err = "NotAFullUrl"
    /\ inputUrl # <<>>

\* some URL of the crawl (a seed or a discovered page) was answered with a
\* status below 400 on an attempt that was made
UsableFetched ==
    \E i \in DOMAIN issued :
        /\ issued[i].url \in visited
        /\ \E a \in 0..(issued[i].n - 1) :
              FetchOutcome(site, origin, baseDomain, issued[i].url, a) = "ok"

\* C7: in every returned result, errors is non-empty exactly when no page of the
\* crawl was fetched with a usable response, and then it is the one soft-error
\* entry; the failure is not thrown.
C7_SoftErrorIffNoPages ==
    Returned =>
        /\ (result.errors # <<>>) <=> ~UsableFetched
        /\ result.errors # <<>> => result.errors = <<SoftErrorText>>
        /\ ~UsableFetched <=> result.crawledPages = <<>>
        /\ err = "none"

\* a result returned with the soft error after every fetch of the crawl failed
C7_Witness ==
    /\ Returned
    /\ result.errors = <<SoftErrorText>>
    /\ issued # <<>>
    /\ ~UsableFetched

\* C8 as stated: a result returned after a crawl that fetched no page has every
\* sub-score, every category score and totalScore at 0.
C8_AllZeroWhenCrawlFails ==
    (Returned /\ result.crawledPages = <<>>) =>
        /\ result.totalScore = 0
        /\ \A ci \in DOMAIN result.categories : result.categories[ci].score = 0
        /\ \A p \in SubPositions : SubOf(p[1], p[2]).score = 0

\* C8: a result returned after a crawl that fetched no page has every sub-score
\* at 0 except "No CAPTCHA", which is 2, and the OpenAPI metadata sub-score,
\* which is 2 exactly when a direct probe found a spec; PURCHASE is 2,
\* INTEGRATION and TRUST are 0, and totalScore is 2 or 4.
C8_OnlyDefaultsWhenCrawlFails ==
    (Returned /\ result.crawledPages = <<>>) =>
        /\ \A p \in SubPositions :
              SubOf(p[1], p[2]).score =
                 IF SubOf(p[1], p[2]).name = "No CAPTCHA" THEN 2
                 ELSE IF SubOf(p[1], p[2]).name = "Structured metadata / OpenAPI spec"
                      THEN (IF corpus.probe THEN 2 ELSE 0)
                 ELSE 0
        /\ result.categories[1].score = (IF corpus.probe THEN 2 ELSE 0)
        /\ result.categories[2].score = 2
        /\ result.categories[3].score = 0
        /\ result.categories[4].score = 0
        /\ result.totalScore = (IF corpus.probe THEN 4 ELSE 2)
        /\ result.errors = <<SoftErrorText>>

\* a result returned after every fetch of the crawl failed
C8_Witness ==
    /\ Returned
    /\ result.crawledPages = <<>>
    /\ issued # <<>>
    /\ result.totalScore = 2

\* the signup sub-score of the rubric's output
Signup == categories[2].subScores[1]

HasKw(kws) == \E i \in DOMAIN kws : TextHas(corpus.text, kws[i])

Scored == pc \in {"aggregate", "done"}

C10_GradeThresholds ==
    Returned =>
        LET t == result.totalScore
        IN /\ t \in 0..40
           /\ result.grade = "A" <=> t >= 35
           /\ result.grade = "B" <=> t \in 28..34
           /\ result.grade = "C" <=> t \in 20..27
           /\ result.grade = "D" <=> t \in 10..19
           /\ result.grade = "F" <=> t \in 0..9

\* a result graded A on the lowest total that earns it
C10_Witness ==
    /\ Returned
    /\ result.totalScore = 35
    /\ result.grade = "A"

\* C11: fetchPage makes at most retries + 1 attempts.  After the k-th failed
\* attempt with k <= retries it waits 500 ms x k and then tries again; after
\* the last failed attempt it returns null at once, without waiting and without
\* throwing; a response of any status is returned at once with no further
\* attempt; a call that has returned does nothing more.
C11_FetchPageAttempts ==
    [][\A k \in DOMAIN slots :
          (k \in DOMAIN slots' /\ slots'[k] # slots[k]) =>
             LET s == slots[k]
                 t == slots'[k]
                 outcome == FetchOutcome(site, origin, baseDomain, s.url, s.attempt)
             IN /\ t.url = s.url /\ t.retries = s.retries
                /\ t.attempt <= s.retries
                /\ CASE s.st = "flying" /\ outcome # "throw" ->
                            t.st = "done" /\ t.res = outcome /\ t.attempt = s.attempt
                     [] s.st = "flying" /\ outcome = "throw" /\ s.attempt < s.retries ->
                            /\ t.st = "waiting" /\ t.res = "none"
                            /\ t.attempt = s.attempt
                            /\ t.delay = 500 * (s.attempt + 1)
                     [] s.st = "flying" /\ outcome = "throw" /\ s.attempt >= s.retries ->
                            /\ t.st = "done" /\ t.res = "null"
                            /\ t.attempt = s.attempt /\ t.delay = 0
                     [] s.st = "waiting" ->
                            t.st = "flying" /\ t.attempt = s.attempt + 1
                     [] OTHER -> FALSE]_vars

\* a call with a budget of two retries has failed three times and returned null,
\* next to a call that got a response on its first attempt
C11_Witness ==
    /\ pc = "fetch"
    /\ \E k \in DOMAIN slots :
          /\ slots[k].retries = 2 /\ slots[k].attempt = 2
          /\ slots[k].st = "done" /\ slots[k].res = "null"
    /\ \E k \in DOMAIN slots :
          slots[k].attempt = 0 /\ slots[k].st = "done" /\ slots[k].res # "null"

\* C12: against a site that serves at least 35 distinct relevant same-site
\* pages, the root page and the pages it links to, and fails every other URL,
\* the crawl ends with exactly 30 URLs in crawledPages, each served by the site
\* and none twice.
C12_Crawls30Of35 ==
    (/\ site = "big"
     /\ Cardinality(SiteServes(site, origin, baseDomain)) >= 35
     /\ pc \in {"probe", "rubric", "aggregate", "done"}) =>
        /\ Len(crawledPages) = 30
        /\ Cardinality(Range(crawledPages)) = 30
        /\ Range(crawledPages) \subseteq SiteServes(site, origin, baseDomain)
        /\ pc = "done" => result.crawledPages = crawledPages

\* the run against the site of 35 pages has returned with 30 crawled pages, the
\* root page first
C12_Witness ==
    /\ site = "big" /\ pc = "done"
    /\ Cardinality(SiteServes(site, origin, baseDomain)) = 35
    /\ \A n \in 1..NBig : isRelevantUrl(origin \o BigLinks[n])
    /\ Len(result.crawledPages) = 30
    /\ result.crawledPages[1] = origin

\* the host of an input without scheme: what precedes its first slash
HostOfInput(s) == IF IndexOf(s, <<"/">>) = 0 THEN s ELSE SubStr(s, 1, IndexOf(s, <<"/">>) - 1)

\* C13: an input without a URL scheme whose host contains a dot is accepted,
\* whatever its host starts with, and its origin is https:// followed by the
\* host without a leading www.
C13_SchemelessAccepted ==
    (/\ pc # "start"
     /\ ~StartsWith(inputUrl, HTTP) /\ ~StartsWith(inputUrl, HTTPS)
     /\ Includes(HostOfInput(inputUrl), <<".">>)) =>
        /\ pc # "failed"
        /\ err = "none"
        /\ origin = HTTPS \o (IF StartsWith(HostOfInput(inputUrl), WWWDOT)
                              THEN SubStr(HostOfInput(inputUrl), 3, Len(HostOfInput(inputUrl)))
                              ELSE HostOfInput(inputUrl))

\* C14: a direct probe of a well-known OpenAPI path makes a single HTTP attempt:
\* after a network error or timeout it neither waits for a backoff nor calls
\* fetch() again.
C14_ProbeSingleAttempt ==
    pc = "probe" =>
        \A k \in DOMAIN slots :
           /\ slots[k].attempt = 0
           /\ slots[k].st # "waiting"

\* the fetch() calls made so far for a URL
FetchesOf(log, url) ==
    IF \E i \in DOMAIN log : log[i].url = url
    THEN (CHOOSE e \in Range(log) : e.url = url).n
    ELSE 0

\* C15: at every moment at most 5 fetches are in flight, and while a call of the
\* current batch has not returned, the run stays in its phase and batch: no
\* call is added or replaced, and fetch() is called for no URL but a retry of a
\* call of the batch.
C15_BatchesOfFive ==
    /\ [](Cardinality({k \in DOMAIN slots : slots[k].st # "done"}) <= 5)
    /\ [][(\E k \in DOMAIN slots : slots[k].st # "done") =>
             /\ pc' = pc /\ bi' = bi /\ queue' = queue
             /\ pages' = pages /\ crawledPages' = crawledPages
             /\ DOMAIN slots' = DOMAIN slots
             /\ \A k \in DOMAIN slots : slots'[k].url = slots[k].url
             /\ \A i \in DOMAIN issued' :
                   FetchesOf(issued, issued'[i].url) # issued'[i].n =>
                      \E k \in DOMAIN slots :
                         /\ slots[k].url = issued'[i].url
                         /\ slots[k].st = "waiting"
                         /\ slots'[k].st = "flying"]_vars

\* a full batch of five with one call returned, one waiting for its backoff and
\* one in flight
C15_Witness ==
    /\ Len(slots) = 5
    /\ \E k \in DOMAIN slots : slots[k].st = "done"
    /\ \E k \in DOMAIN slots : slots[k].st = "waiting"
    /\ \E k \in DOMAIN slots : slots[k].st = "flying"

\* what a fetchPage call for the URL returns, whenever its attempts settle
ReturnOf(url, retries) ==
    IF SiteThrows(site, origin, baseDomain, url) > retries THEN "null"
    ELSE FetchOutcome(site, origin, baseDomain, url,
                      SiteThrows(site, origin, baseDomain, url))

\* the URLs of a request sequence whose call returns a usable page, in request order
OkOf(urls) == SelectSeq(urls, LAMBDA u : ReturnOf(u, DEFAULT_RETRIES) = "ok")

\* the key a crawled URL is stored under
KeyOf(url) ==
    IF url \in Range(uniqueSeeds(origin, baseDomain))
    THEN SeedPageKey(url, origin) ELSE ParseUrl(url).pathname

\* C16: whatever order the fetches of a batch complete in, a settled batch holds
\* for each requested URL, in request order, the outcome fixed for that URL;
\* crawledPages is the usable URLs in request order; the Page map holds for each
\* key the last such URL with that key; and the result returned carries exactly
\* these pages and the scores computed from them.
C16_CompletionOrderIrrelevant ==
    /\ (pc \in {"seed", "crawl"} /\ slots # <<>>
        /\ \A k \in DOMAIN slots : slots[k].st = "done") =>
          /\ Len(slots) = Len(BatchOf(queue, bi))
          /\ \A k \in DOMAIN slots :
                /\ slots[k].url = BatchOf(queue, bi)[k]
                /\ slots[k].res = ReturnOf(slots[k].url, slots[k].retries)
    /\ (pc = "seed" /\ slots = <<>>) =>
          crawledPages = OkOf(SubStr(queue, 1, Min(bi - 1, Len(queue))))
    /\ (pc = "crawl" /\ slots = <<>>) =>
          crawledPages = OkOf(uniqueSeeds(origin, baseDomain))
                         \o OkOf(SubStr(queue, 1, Min(bi - 1, Len(queue))))
    /\ pc \in {"probe", "rubric", "aggregate", "done"} =>
          crawledPages = OkOf(uniqueSeeds(origin, baseDomain) \o queue)
    /\ pc \in {"seed", "crawl", "probe", "rubric", "aggregate", "done"} =>
          /\ MapKeys(pages) = {KeyOf(u) : u \in Range(crawledPages)}
          /\ \A i \in DOMAIN pages :
                \E n \in DOMAIN crawledPages :
                   /\ crawledPages[n] = pages[i].html
                   /\ KeyOf(crawledPages[n]) = pages[i].key
                   /\ \A m \in DOMAIN crawledPages :
                         KeyOf(crawledPages[m]) = pages[i].key => m <= n
    /\ pc = "done" =>
          /\ result.crawledPages = crawledPages
          /\ result.categories = categories
          /\ result.totalScore = TotalOf(categories)
          /\ result.grade = GradeOf(result.totalScore)
    /\ pc \in {"aggregate", "done"} => corpus.keys = MapKeys(pages)

\* a batch has settled in which a call that needed a retry precedes, in request
\* order, a call that got its page at the first attempt
C16_Witness ==
    /\ pc = "seed" /\ slots # <<>>
    /\ \A k \in DOMAIN slots : slots[k].st = "done"
    /\ \E j, k \in DOMAIN slots :
          /\ j < k
          /\ slots[j].attempt > 0 /\ slots[j].res = "ok"
          /\ slots[k].attempt = 0 /\ slots[k].res = "ok"

\* C17: the seed and discovery crawls never call fetchPage twice for one URL:
\* the URLs of a batch are distinct and fetch() was called for none of them
\* before the batch was issued; the seed list and the candidate list hold no
\* URL twice, and no candidate is a seed.
C17_NoUrlFetchedTwice ==
    /\ [](pc \in {"seed", "crawl"} =>
            /\ \A i, j \in DOMAIN queue : queue[i] = queue[j] => i = j
            /\ pc = "crawl" =>
                  Range(queue) \cap Range(uniqueSeeds(origin, baseDomain)) = {})
    /\ [][(pc' \in {"seed", "crawl"} /\ slots = <<>> /\ slots' # <<>>) =>
             \A k \in DOMAIN slots' :
                /\ FetchesOf(issued, slots'[k].url) = 0
                /\ FetchesOf(issued', slots'[k].url) = 1
                /\ \A j \in DOMAIN slots' : slots'[j].url = slots'[k].url => j = k]_vars

\* a discovery batch in flight for a URL two hrefs of the home page led to, one
\* of them with a trailing slash on a seed's path
C17_Witness ==
    /\ pc = "crawl" /\ slots # <<>>
    /\ \E k \in DOMAIN slots : slots[k].url = origin \o <<"/", "billing">>
    /\ Cardinality({i \in DOMAIN HtmlOf(origin).hrefs :
                       HtmlOf(origin).hrefs[i] = <<"/", "billing">>}) = 2
    /\ \E i \in DOMAIN HtmlOf(origin).hrefs : HtmlOf(origin).hrefs[i] = <<"/", "docs", "/">>
    /\ origin \o <<"/", "docs">> \in Range(crawledPages)

\* the host is the base domain or one of its subdomains, www. aside
OnBaseDomain(url) ==
    LET h == ParseUrl(url).hostname
        host == IF StartsWith(h, WWWDOT) THEN SubStr(h, 3, Len(h)) ELSE h
    IN host = baseDomain \/ EndsWith(host, <<".">> \o baseDomain)

\* C18: every URL the crawl calls fetch() for, and every entry of crawledPages,
\* has a host that without its www. is the base domain or ends in "." followed
\* by the base domain.
C18_OnlyBaseDomainFetched ==
    pc \in {"seed", "crawl"} =>
        /\ \A k \in DOMAIN slots : OnBaseDomain(slots[k].url)
        /\ \A i \in DOMAIN issued : OnBaseDomain(issued[i].url)
        /\ \A n \in DOMAIN crawledPages : OnBaseDomain(crawledPages[n])

\* the key the Page map is to hold a crawled URL under: its path on the main
\* origin's host, the full URL on any other host
KeyByHost(url) ==
    IF ParseUrl(url).hostname = baseUrl.hostname
    THEN ParseUrl(url).pathname ELSE url

\* C19: in the seed crawl and in the discovery crawl each crawled page sits in
\* the Page map under its path when its host is the main origin's and under its
\* full URL otherwise, so that no page replaces another and the Page map holds
\* one entry per entry of crawledPages.
C19_PageKeyedByHost ==
    pc \in {"seed", "crawl", "probe", "rubric", "aggregate", "done"} =>
        /\ Len(pages) = Len(crawledPages)
        /\ \A n \in DOMAIN crawledPages :
              \E i \in DOMAIN pages :
                 /\ pages[i].key = KeyByHost(crawledPages[n])
                 /\ pages[i].html = crawledPages[n]

\* the hrefs of a page that carry no scheme and host of their own
RelativeHrefs(page) ==
    {h \in Range(HtmlOf(page).hrefs) :
        h # <<>> /\ ~StartsWith(h, HTTPS) /\ ~StartsWith(h, HTTP)}

\* C20: a relative link of a fetched page is resolved against the URL of that
\* page: for the root page of a subdomain, the link corpus holds the link on
\* that subdomain, and after discovery the link on that subdomain is a
\* candidate unless it is irrelevant, already visited or cut by the cap.
C20_RelativeLinksOnPageHost ==
    \A i \in DOMAIN pages :
       LET page == pages[i].html
       IN (ParseUrl(page).hostname # baseUrl.hostname /\ ParseUrl(page).pathname = <<"/">>) =>
             \A h \in RelativeHrefs(page) :
                LET abs == UrlHref(ResolveUrl(h, UrlOrigin(ParseUrl(page))))
                IN /\ pc \in {"probe", "rubric", "aggregate", "done"} =>
                         Includes(corpus.links, abs)
                   /\ (pc = "crawl" /\ bi = 1 /\ slots = <<>>) =>
                         \/ NormalizeLink(abs) \in Range(queue) \cup visited
                         \/ ~isRelevantUrl(NormalizeLink(abs))
                         \/ Len(queue) >= MAX_CRAWL_PAGES - Len(pages)

====
